---------------------------- MODULE Spec2Model ----------------------------
(***************************************************************************)
(* A model of LogSaver.py: the Rsyncer and Tarrer classes and the          *)
(* __main__ block that drives them.  Python strings are TLC strings (Len,  *)
(* \o and SubSeq work on them), commands are sequences of strings, the     *)
(* clock is a naive datetime with Python's proleptic Gregorian arithmetic, *)
(* and the filesystem is the set of directories and archive files that     *)
(* exist.                                                                  *)
(***************************************************************************)
EXTENDS Integers, Sequences, FiniteSets, TLC

VARIABLES
    pc,          \* position of the interpreter in __main__ (or of the class-level client)
    found,       \* what find_executable answers: [rsync |-> path or None, tar |-> ...]
    argv,        \* the command line as argparse will see it
    args,        \* the parsed arguments
    rsync_exe,   \* __main__'s rsync_exe
    tar_exe,     \* __main__'s tar_exe
    rsyncer,     \* the Rsyncer object
    tarrer,      \* the Tarrer object
    clock,       \* the wall clock datetime.now() reads
    ticks,       \* how many times the clock has advanced
    tmpenv,      \* what tempfile will do: [dir, name, ok]
    dirs,        \* directories that exist (canonical paths)
    undeletable, \* directories rmtree cannot remove (canonical paths)
    archives,    \* archive files written by the tar subprocess
    calls,       \* the subprocess calls made so far: [com, rc]
    log,         \* the steps performed so far
    exit_status, \* the process's exit status, NoStatus while running
    stderr       \* what the process has written as its exit message

vars == <<pc, found, argv, args, rsync_exe, tar_exe, rsyncer, tarrer, clock, ticks,
          tmpenv, dirs, undeletable, archives, calls, log, exit_status, stderr>>

-----------------------------------------------------------------------------
(* Bounds of the model *)

\* how many times the clock may advance during one run
MaxTicks == 2
\* how many characters a path handed to Tarrer by a class-level client may have
MaxPathLen == 4
\* how many method calls a class-level client makes on one Rsyncer
MaxApiCalls == 4

-----------------------------------------------------------------------------
(* Python values *)

None == "<None>"
\* exit_status while the process is still running
NoStatus == 0 - 1

\* s[i:i+1] for a 1-based i
Char(s, i) == SubSeq(s, i, i)

\* str.startswith
startswith(s, p) == Len(s) >= Len(p) /\ SubSeq(s, 1, Len(p)) = p

\* str.endswith
endswith(s, p) == Len(s) >= Len(p) /\ SubSeq(s, Len(s) - Len(p) + 1, Len(s)) = p

\* s[n:] for a 0-based n
DropFirst(s, n) == SubSeq(s, n + 1, Len(s))

\* str.rfind('/') + 1: the length of the part up to and including the last slash
rfindSlash1(p) ==
    LET hits == {i \in 1..Len(p) : Char(p, i) = "/"}
    IN  IF hits = {} THEN 0 ELSE CHOOSE i \in hits : \A j \in hits : j <= i

\* str.rstrip('/')
rstripSlash(s) ==
    LET keep == {i \in 1..Len(s) : Char(s, i) # "/"}
    IN  IF keep = {} THEN ""
        ELSE SubSeq(s, 1, CHOOSE i \in keep : \A j \in keep : j <= i)

\* '/' * n
RECURSIVE Slashes(_)
Slashes(n) == IF n = 0 THEN "" ELSE "/" \o Slashes(n - 1)

\* str.split('/'): the components between slashes, empty ones included
splitSlash(s) ==
    LET cuts == {i \in 1..Len(s) : Char(s, i) = "/"}
        n == Cardinality(cuts)
        cut(k) == CHOOSE i \in cuts : Cardinality({j \in cuts : j < i}) = k - 1
    IN  [k \in 1..(n + 1) |->
            SubSeq(s, IF k = 1 THEN 1 ELSE cut(k - 1) + 1,
                      IF k = n + 1 THEN Len(s) ELSE cut(k) - 1)]

\* sep.join(seq)
RECURSIVE joinWith(_, _)
joinWith(sep, seq) ==
    IF Len(seq) = 0 THEN ""
    ELSE IF Len(seq) = 1 THEN seq[1]
    ELSE seq[1] \o sep \o joinWith(sep, Tail(seq))

-----------------------------------------------------------------------------
(* os.path (posixpath) *)

\* the loop of normpath over the components
RECURSIVE normComps(_, _, _)
normComps(comps, new_comps, initial_slashes) ==
    IF Len(comps) = 0 THEN new_comps
    ELSE LET comp == Head(comps)
             rest == Tail(comps)
         IN  IF comp \in {"", "."}
             THEN normComps(rest, new_comps, initial_slashes)
             ELSE IF \/ comp # ".."
                     \/ (initial_slashes = 0 /\ Len(new_comps) = 0)
                     \/ (Len(new_comps) > 0 /\ new_comps[Len(new_comps)] = "..")
             THEN normComps(rest, Append(new_comps, comp), initial_slashes)
             ELSE IF Len(new_comps) > 0
             THEN normComps(rest, SubSeq(new_comps, 1, Len(new_comps) - 1), initial_slashes)
             ELSE normComps(rest, new_comps, initial_slashes)

\* os.path.normpath
normpath(path) ==
    IF Len(path) = 0 THEN "."
    ELSE LET initial_slashes ==
                 IF ~startswith(path, "/") THEN 0
                 ELSE IF startswith(path, "//") /\ ~startswith(path, "///") THEN 2
                 ELSE 1
             comps == normComps(splitSlash(path), <<>>, initial_slashes)
             joined == Slashes(initial_slashes) \o joinWith("/", comps)
         IN  IF Len(joined) = 0 THEN "." ELSE joined

\* os.path.split: <<head, tail>>
split(p) ==
    LET i == rfindSlash1(p)
        head == SubSeq(p, 1, i)
        tail == DropFirst(p, i)
    IN  IF Len(head) > 0 /\ (\E k \in 1..Len(head) : Char(head, k) # "/")
        THEN <<rstripSlash(head), tail>>
        ELSE <<head, tail>>

\* os.path.join of two parts
join(a, b) ==
    IF startswith(b, "/") THEN b
    ELSE IF Len(a) = 0 \/ endswith(a, "/") THEN a \o b
    ELSE a \o "/" \o b

-----------------------------------------------------------------------------
(* datetime: a naive datetime is [year, month, day, hour, minute, second] *)

\* calendar.isleap, as datetime's _is_leap
is_leap(year) == year % 4 = 0 /\ (year % 100 # 0 \/ year % 400 = 0)

\* datetime._days_in_month
days_in_month(year, month) ==
    IF month = 2 THEN (IF is_leap(year) THEN 29 ELSE 28)
    ELSE IF month \in {4, 6, 9, 11} THEN 30
    ELSE 31

\* datetime._days_before_year
days_before_year(year) ==
    LET y == year - 1
    IN  y * 365 + (y \div 4) - (y \div 100) + (y \div 400)

\* datetime._days_before_month
RECURSIVE days_before_month(_, _)
days_before_month(year, month) ==
    IF month = 1 THEN 0
    ELSE days_before_month(year, month - 1) + days_in_month(year, month - 1)

\* datetime._ymd2ord: the proleptic Gregorian ordinal, 0001-01-01 being day 1
ymd2ord(year, month, day) ==
    days_before_year(year) + days_before_month(year, month) + day

\* datetime._ord2ymd: <<year, month, day>> of an ordinal
ord2ymd(ordinal) ==
    LET n0   == ordinal - 1
        n400 == n0 \div 146097
        r400 == n0 % 146097
        n100 == r400 \div 36524
        r100 == r400 % 36524
        n4   == r100 \div 1461
        r4   == r100 % 1461
        n1   == r4 \div 365
        n    == r4 % 365
        year == n400 * 400 + 1 + n100 * 100 + n4 * 4 + n1
    IN  IF n1 = 4 \/ n100 = 4 THEN <<year - 1, 12, 31>>
        ELSE LET guess == (n + 50) \div 32
                 month == IF days_before_month(year, guess) > n THEN guess - 1 ELSE guess
             IN  <<year, month, n - days_before_month(year, month) + 1>>

\* the seconds into the day of a datetime
second_of_day(dt) == dt.hour * 3600 + dt.minute * 60 + dt.second

\* datetime.combine(date.fromordinal(days), time of `seconds` into the day)
from_ordinal_seconds(days, seconds) ==
    LET ymd == ord2ymd(days)
    IN  [year |-> ymd[1], month |-> ymd[2], day |-> ymd[3],
         hour |-> seconds \div 3600, minute |-> (seconds % 3600) \div 60,
         second |-> seconds % 60]

\* datetime.__sub__(timedelta): dt - timedelta(days, seconds)
datetime_sub(dt, days, seconds) ==
    LET total == second_of_day(dt) - seconds
        ord   == ymd2ord(dt.year, dt.month, dt.day) - days
    IN  IF total >= 0
        THEN from_ordinal_seconds(ord + (total \div 86400), total % 86400)
        ELSE from_ordinal_seconds(ord - 1, total + 86400)

\* one decimal digit as a character
Digit(d) == Char("0123456789", d + 1)

\* "%0<width>d" % n
RECURSIVE zfill(_, _)
zfill(n, width) ==
    IF width = 0 THEN "" ELSE zfill(n \div 10, width - 1) \o Digit(n % 10)

\* now.strftime("%Y%m%d%H%M%S")
strftime_compact(dt) ==
    zfill(dt.year, 4) \o zfill(dt.month, 2) \o zfill(dt.day, 2)
        \o zfill(dt.hour, 2) \o zfill(dt.minute, 2) \o zfill(dt.second, 2)

\* two_days_ago.strftime("%Y-%m-%d %H:%M:%S")
strftime_iso(dt) ==
    zfill(dt.year, 4) \o "-" \o zfill(dt.month, 2) \o "-" \o zfill(dt.day, 2)
        \o " " \o zfill(dt.hour, 2) \o ":" \o zfill(dt.minute, 2) \o ":" \o zfill(dt.second, 2)

\* the wall clock one second later
tick(dt) == datetime_sub(dt, 0, -1)

\* the clock readings a run may start at: a second before midnight on 1 March of a
\* common year, midnight on 1 March of a leap year, and the second day of a year
StartClocks ==
    { [year |-> 2014, month |-> 3, day |-> 1, hour |-> 23, minute |-> 59, second |-> 59],
      [year |-> 2016, month |-> 3, day |-> 1, hour |-> 0,  minute |-> 0,  second |-> 0],
      [year |-> 2015, month |-> 1, day |-> 2, hour |-> 12, minute |-> 30, second |-> 5] }

-----------------------------------------------------------------------------
(* tempfile, shutil and the filesystem *)

\* the path the filesystem resolves a path string to (no symbolic links, fixed cwd)
Canon(path) == normpath(path)

\* tempfile.mkdtemp(prefix=prefix): the path of the directory it creates
mkdtemp(prefix, env) == join(env.dir, prefix \o env.name)

\* shutil.rmtree(path, ignore_errors): the directories left, and whether it raised
rmtree(path, ignore_errors, existing, locked) ==
    IF Canon(path) \notin existing \/ Canon(path) \in locked
    THEN [dirs |-> existing, raised |-> ~ignore_errors]
    ELSE [dirs |-> existing \ {Canon(path)}, raised |-> FALSE]

-----------------------------------------------------------------------------
(* class Rsyncer *)

NoRsyncer ==
    [made |-> FALSE, rsync_exe |-> None, remote_location |-> None,
     tmp_directory |-> None, command |-> <<>>]

\* Rsyncer.__build_command with the source and the destination exchanged
Rsyncer_build_command_swapped(self) ==
    <<self.rsync_exe, "--archive", self.tmp_directory, self.remote_location>>

\* Rsyncer.__build_command
Rsyncer_build_command(self) ==
    <<self.rsync_exe, "--archive", self.remote_location, self.tmp_directory>>

\* the prefix Rsyncer.__init__ hands to mkdtemp
Rsyncer_prefix(now) == "power_mezzanine_tester_logs_" \o strftime_compact(now) \o "_"

\* Rsyncer.__init__, given the clock reading and tempfile's behaviour
Rsyncer_init(exe, remote_location, now, env) ==
    LET self == [made |-> TRUE, rsync_exe |-> exe, remote_location |-> remote_location,
                 tmp_directory |-> normpath(mkdtemp(Rsyncer_prefix(now), env) \o "/"),
                 command |-> <<>>]
    IN  [self EXCEPT !.command = Rsyncer_build_command(self)]

\* Rsyncer.run written with check_call: a non-zero exit status raises
Rsyncer_run_checked(self, rc) == [com |-> joinWith(" ", self.command), raised |-> rc # 0]

\* Rsyncer.run: the string handed to the shell, and whether run raises once the
\* subprocess has exited with status rc (call's return value is dropped)
Rsyncer_run(self, rc) == [com |-> joinWith(" ", self.command), raised |-> FALSE]

\* Rsyncer.clean without ignore_errors
Rsyncer_clean_strict(self, existing, locked) ==
    rmtree(self.tmp_directory, FALSE, existing, locked)

\* Rsyncer.clean
Rsyncer_clean(self, existing, locked) == rmtree(self.tmp_directory, TRUE, existing, locked)

-----------------------------------------------------------------------------
(* class Tarrer *)

NoTarrer ==
    [made |-> FALSE, tar_exe |-> None, directory_to_tar |-> None, output_location |-> None,
     is_daily |-> FALSE, do_full_backup |-> FALSE, command |-> <<>>]

\* Tarrer.__build_command with the two prefix tests in the other order
Tarrer_file_name_daily_first(self, now) ==
    LET file_name == normpath("power_mezzanine_tester_logs_" \o strftime_compact(now)
                                  \o ".tar.bz2")
    IN  IF self.is_daily THEN "DAILY_" \o file_name
        ELSE IF self.do_full_backup THEN "FULL_" \o file_name
        ELSE file_name

\* Tarrer.__build_command: the name of the archive file
Tarrer_file_name(self, now) ==
    LET file_name == normpath("power_mezzanine_tester_logs_" \o strftime_compact(now)
                                  \o ".tar.bz2")
    IN  IF self.do_full_backup THEN "FULL_" \o file_name
        ELSE IF self.is_daily THEN "DAILY_" \o file_name
        ELSE file_name

\* cutoff_date taken one day back instead of two
Tarrer_cutoff_date_one_day(now) == strftime_iso(datetime_sub(now, 1, 0))

\* Tarrer.__build_command: cutoff_date
Tarrer_cutoff_date(now) == strftime_iso(datetime_sub(now, 2, 0))

\* Tarrer.__build_command that never adds the time filter
Tarrer_filter_never(self, now) == <<>>

\* Tarrer.__build_command: the tokens between the executable and "-cjf"
Tarrer_filter(self, now) ==
    IF ~self.do_full_backup
    THEN << "--newer-mtime=\"" \o Tarrer_cutoff_date(now) \o "\"" >>
    ELSE <<>>

\* input_files built from the whole directory name instead of its last part
Tarrer_input_files_whole(self) == normpath(self.directory_to_tar \o "/*.txt")

\* Tarrer.__build_command: input_files
Tarrer_input_files(self) == normpath(split(self.directory_to_tar)[2] \o "/*.txt")

\* Tarrer.__build_command
Tarrer_build_command(self, now) ==
    LET output_file == normpath(self.output_location \o "/" \o Tarrer_file_name(self, now))
        base_dir == split(self.directory_to_tar)[1]
    IN  <<"cd", base_dir, "&&", self.tar_exe>>
            \o Tarrer_filter(self, now)
            \o <<"-cjf", output_file, Tarrer_input_files(self)>>

\* Tarrer.__init__, given the clock reading
Tarrer_init(exe, directory_to_tar, output_location, is_daily, do_full_backup, now) ==
    LET self == [made |-> TRUE, tar_exe |-> exe, directory_to_tar |-> directory_to_tar,
                 output_location |-> output_location, is_daily |-> is_daily,
                 do_full_backup |-> do_full_backup, command |-> <<>>]
    IN  [self EXCEPT !.command = Tarrer_build_command(self, now)]

\* Tarrer.run: the string handed to the shell, and whether run raises once the
\* subprocess has exited with status rc (call's return value is dropped)
Tarrer_run(self, rc) == [com |-> joinWith(" ", self.command), raised |-> FALSE]

\* where the shell of Tarrer.run writes the archive: -cjf's argument, seen from the
\* directory that "cd" changed into
Tarrer_archive_path(self) ==
    Canon(join(self.command[2], self.command[Len(self.command) - 1]))

-----------------------------------------------------------------------------
(* The environment of a run *)

\* what find_executable may answer for the two tools
FoundSet == [rsync : {None, "/usr/bin/rsync"}, tar : {None, "/bin/tar"}]

\* the command lines: one that argparse rejects, and the accepted ones
BadArgv == [ok |-> FALSE, log_location |-> None, output_dir |-> None,
            daily |-> FALSE, full |-> FALSE]
GoodArgvs ==
    [ok : {TRUE}, log_location : {"user@host:/var/log/tester/", "logs"},
     output_dir : {"/backups", "out/"}, daily : BOOLEAN, full : BOOLEAN]
NoArgs == BadArgv

\* tempfile: the temporary directory it uses (gettempdir falls back to the current
\* directory), the random part of the name, and whether the directory can be made
TmpEnvs ==
    [dir : {"/tmp", "/", "."}, name : {"aB3xYz"}, ok : {TRUE}]
        \cup {[dir |-> "/tmp", name |-> "aB3xYz", ok |-> FALSE]}

\* the exit statuses a subprocess may end with
ExitStatuses == {0, 1}

Terminal == {"done", "exited", "crashed"}

\* sys.exit(message): the message goes to stderr and the status is 1
sys_exit(message) ==
    /\ pc' = "exited"
    /\ exit_status' = 1
    /\ stderr' = message

\* an exception nobody catches: the traceback goes to stderr and the status is 1
uncaught(exception) ==
    /\ pc' = "crashed"
    /\ exit_status' = 1
    /\ stderr' = "Traceback: " \o exception

-----------------------------------------------------------------------------
(* __main__ *)

Init ==
    /\ pc = "find"
    /\ found \in FoundSet
    /\ argv \in GoodArgvs \cup {BadArgv}
    /\ args = NoArgs
    /\ rsync_exe = None
    /\ tar_exe = None
    /\ rsyncer = NoRsyncer
    /\ tarrer = NoTarrer
    /\ clock \in StartClocks
    /\ ticks = 0
    /\ tmpenv \in TmpEnvs
    /\ dirs = {}
    /\ undeletable = {}
    /\ archives = {}
    /\ calls = <<>>
    /\ log = <<>>
    /\ exit_status = NoStatus
    /\ stderr = ""

\* lines 139-144 without the test of tar_exe
FindExecutables_rsync_only ==
    /\ pc = "find"
    /\ rsync_exe' = found.rsync
    /\ tar_exe' = found.tar
    /\ IF found.rsync = None THEN sys_exit("Can not find rsync.")
       ELSE pc' = "parse" /\ UNCHANGED <<exit_status, stderr>>
    /\ UNCHANGED <<found, argv, args, rsyncer, tarrer, clock, ticks, tmpenv, dirs,
                   undeletable, archives, calls, log>>

\* lines 139-144: resolve the two executables, exit when one is missing
FindExecutables ==
    /\ pc = "find"
    /\ rsync_exe' = found.rsync
    /\ tar_exe' = found.tar
    /\ IF found.rsync = None THEN sys_exit("Can not find rsync.")
       ELSE IF found.tar = None THEN sys_exit("Can not find tar.")
       ELSE pc' = "parse" /\ UNCHANGED <<exit_status, stderr>>
    /\ UNCHANGED <<found, argv, args, rsyncer, tarrer, clock, ticks, tmpenv, dirs,
                   undeletable, archives, calls, log>>

\* lines 147-174: argparse; a rejected command line ends the process with status 2
ParseArgs ==
    /\ pc = "parse"
    /\ IF argv.ok
       THEN /\ args' = argv
            /\ pc' = "new_rsyncer"
            /\ UNCHANGED <<exit_status, stderr>>
       ELSE /\ pc' = "exited"
            /\ exit_status' = 2
            /\ stderr' = "usage"
            /\ UNCHANGED args
    /\ UNCHANGED <<found, argv, rsync_exe, tar_exe, rsyncer, tarrer, clock, ticks, tmpenv,
                   dirs, undeletable, archives, calls, log>>

\* line 177: rsyncer = Rsyncer(rsync_exe, args.log_location); mkdtemp may fail
NewRsyncer ==
    /\ pc = "new_rsyncer"
    /\ IF tmpenv.ok
       THEN /\ rsyncer' = Rsyncer_init(rsync_exe, args.log_location, clock, tmpenv)
            /\ dirs' = dirs \cup {Canon(mkdtemp(Rsyncer_prefix(clock), tmpenv))}
            /\ log' = Append(log, "mkdtemp")
            /\ pc' = "new_tarrer"
            /\ UNCHANGED <<exit_status, stderr>>
       ELSE /\ uncaught("OSError")
            /\ UNCHANGED <<rsyncer, dirs, log>>
    /\ UNCHANGED <<found, argv, args, rsync_exe, tar_exe, tarrer, clock, ticks, tmpenv,
                   undeletable, archives, calls>>

\* lines 178-184: tarrer = Tarrer(tar_exe, rsyncer.tmp_directory, args.output_dir, ...)
NewTarrer ==
    /\ pc = "new_tarrer"
    /\ tarrer' = Tarrer_init(tar_exe, rsyncer.tmp_directory, args.output_dir,
                             args.daily, args.full, clock)
    /\ log' = Append(log, "tar_command")
    /\ pc' = "rsync_run"
    /\ UNCHANGED <<found, argv, args, rsync_exe, tar_exe, rsyncer, clock, ticks, tmpenv,
                   dirs, undeletable, archives, calls, exit_status, stderr>>

\* line 186 followed directly by line 188: the archive step left out
RsyncRun_then_clean ==
    /\ pc = "rsync_run"
    /\ \E rc \in ExitStatuses, locks \in BOOLEAN :
        LET r == Rsyncer_run(rsyncer, rc)
        IN  /\ calls' = Append(calls, [com |-> r.com, rc |-> rc])
            /\ log' = Append(log, "rsync")
            /\ undeletable' = IF locks /\ Canon(rsyncer.tmp_directory) \in dirs
                              THEN undeletable \cup {Canon(rsyncer.tmp_directory)}
                              ELSE undeletable
            /\ pc' = "clean"
            /\ UNCHANGED <<exit_status, stderr>>
    /\ UNCHANGED <<found, argv, args, rsync_exe, tar_exe, rsyncer, tarrer, clock, ticks,
                   tmpenv, dirs, archives>>

\* line 186: rsyncer.run(); the subprocess exits with rc, and may leave behind
\* (--archive keeps permissions) something rmtree cannot remove
RsyncRun ==
    /\ pc = "rsync_run"
    /\ \E rc \in ExitStatuses, locks \in BOOLEAN :
        LET r == Rsyncer_run(rsyncer, rc)
        IN  /\ calls' = Append(calls, [com |-> r.com, rc |-> rc])
            /\ log' = Append(log, "rsync")
            /\ undeletable' = IF locks /\ Canon(rsyncer.tmp_directory) \in dirs
                              THEN undeletable \cup {Canon(rsyncer.tmp_directory)}
                              ELSE undeletable
            /\ IF r.raised THEN uncaught("CalledProcessError")
               ELSE pc' = "tar_run" /\ UNCHANGED <<exit_status, stderr>>
    /\ UNCHANGED <<found, argv, args, rsync_exe, tar_exe, rsyncer, tarrer, clock, ticks,
                   tmpenv, dirs, archives>>

\* line 187: tarrer.run(); a subprocess that exits with 0 has written the archive
TarRun ==
    /\ pc = "tar_run"
    /\ \E rc \in ExitStatuses :
        LET r == Tarrer_run(tarrer, rc)
        IN  /\ calls' = Append(calls, [com |-> r.com, rc |-> rc])
            /\ log' = Append(log, "tar")
            /\ archives' = IF rc = 0 THEN archives \cup {Tarrer_archive_path(tarrer)}
                           ELSE archives
            /\ IF r.raised THEN uncaught("CalledProcessError")
               ELSE pc' = "clean" /\ UNCHANGED <<exit_status, stderr>>
    /\ UNCHANGED <<found, argv, args, rsync_exe, tar_exe, rsyncer, tarrer, clock, ticks,
                   tmpenv, dirs, undeletable>>

\* line 188: rsyncer.clean(), after which the script ends with status 0
Clean ==
    /\ pc = "clean"
    /\ LET r == Rsyncer_clean(rsyncer, dirs, undeletable)
       IN  /\ dirs' = r.dirs
           /\ log' = Append(log, "clean")
           /\ IF r.raised THEN uncaught("OSError")
              ELSE pc' = "done" /\ exit_status' = 0 /\ UNCHANGED stderr
    /\ UNCHANGED <<found, argv, args, rsync_exe, tar_exe, rsyncer, tarrer, clock, ticks,
                   tmpenv, undeletable, archives, calls>>

\* an exception raised inside one of lines 178-188 that nothing catches (there is no
\* try statement in the file): KeyboardInterrupt, or OSError out of call or __init__
Interrupt ==
    /\ pc \in {"new_tarrer", "rsync_run", "tar_run", "clean"}
    /\ uncaught("KeyboardInterrupt")
    /\ UNCHANGED <<found, argv, args, rsync_exe, tar_exe, rsyncer, tarrer, clock, ticks,
                   tmpenv, dirs, undeletable, archives, calls, log>>

\* the wall clock advances before one of the two datetime.now() readings (an advance
\* after the last reading is seen by nothing)
Tick ==
    /\ pc \in {"find", "parse", "new_rsyncer", "new_tarrer"}
    /\ ticks < MaxTicks
    /\ clock' = tick(clock)
    /\ ticks' = ticks + 1
    /\ UNCHANGED <<pc, found, argv, args, rsync_exe, tar_exe, rsyncer, tarrer, tmpenv, dirs,
                   undeletable, archives, calls, log, exit_status, stderr>>

Next ==
    \/ FindExecutables
    \/ ParseArgs
    \/ NewRsyncer
    \/ NewTarrer
    \/ RsyncRun
    \/ TarRun
    \/ Clean
    \/ Interrupt
    \/ Tick

Spec == Init /\ [][Next]_vars

-----------------------------------------------------------------------------
(* The two classes used directly, by a client that either constructs an Rsyncer  *)
(* and calls its methods in any order and any number of times, or constructs a   *)
(* Tarrer on any directory name (a Tarrer holds strings only, so the two objects *)
(* do not act on each other).  Here args holds the arguments the client hands to *)
(* Tarrer, and log the Rsyncer method calls made.                                *)

\* the characters of the directory names the client hands to Tarrer
PathAlphabet == {"/", "a", "."}

RECURSIVE StringsOfLen(_)
StringsOfLen(n) ==
    IF n = 0 THEN {""} ELSE {s \o c : s \in StringsOfLen(n - 1), c \in PathAlphabet}

PathStrings == UNION {StringsOfLen(k) : k \in 0..MaxPathLen}

\* the arguments of Tarrer(...) after tar_exe
TarrerArgs ==
    [directory_to_tar : PathStrings, output_location : {"/backups"},
     is_daily : BOOLEAN, do_full_backup : BOOLEAN]

NoTarrerArgs ==
    [directory_to_tar |-> None, output_location |-> None,
     is_daily |-> FALSE, do_full_backup |-> FALSE]

InitClient ==
    /\ \/ pc = "tarrer_client" /\ args \in TarrerArgs
       \/ pc = "rsyncer_client" /\ args = NoTarrerArgs
    /\ found = [rsync |-> "/usr/bin/rsync", tar |-> "/bin/tar"]
    /\ argv = BadArgv
    /\ rsync_exe = found.rsync
    /\ tar_exe = found.tar
    /\ rsyncer = NoRsyncer
    /\ tarrer = NoTarrer
    /\ clock \in StartClocks
    /\ ticks = 0
    /\ tmpenv = [dir |-> "/tmp", name |-> "aB3xYz", ok |-> TRUE]
    /\ dirs = {}
    /\ undeletable = {}
    /\ archives = {}
    /\ calls = <<>>
    /\ log = <<>>
    /\ exit_status = NoStatus
    /\ stderr = ""

\* Rsyncer(rsync_exe, remote_location)
ClientNewRsyncer ==
    /\ pc = "rsyncer_client"
    /\ ~rsyncer.made
    /\ rsyncer' = Rsyncer_init(rsync_exe, "user@host:/var/log/tester/", clock, tmpenv)
    /\ dirs' = dirs \cup {Canon(mkdtemp(Rsyncer_prefix(clock), tmpenv))}
    /\ log' = Append(log, "mkdtemp")
    /\ UNCHANGED <<pc, found, argv, args, rsync_exe, tar_exe, tarrer, clock, ticks, tmpenv,
                   undeletable, archives, calls, exit_status, stderr>>

\* rsyncer.run()
ClientRun ==
    /\ pc = "rsyncer_client"
    /\ rsyncer.made
    /\ Len(log) < MaxApiCalls
    /\ \E rc \in ExitStatuses, locks \in BOOLEAN :
        LET r == Rsyncer_run(rsyncer, rc)
        IN  /\ calls' = Append(calls, [com |-> r.com, rc |-> rc])
            /\ log' = Append(log, "rsync")
            /\ undeletable' = IF locks /\ Canon(rsyncer.tmp_directory) \in dirs
                              THEN undeletable \cup {Canon(rsyncer.tmp_directory)}
                              ELSE undeletable
            /\ IF r.raised THEN uncaught("CalledProcessError")
               ELSE UNCHANGED <<pc, exit_status, stderr>>
    /\ UNCHANGED <<found, argv, args, rsync_exe, tar_exe, rsyncer, tarrer, clock, ticks,
                   tmpenv, dirs, archives>>

\* rsyncer.clean()
ClientClean ==
    /\ pc = "rsyncer_client"
    /\ rsyncer.made
    /\ Len(log) < MaxApiCalls
    /\ LET r == Rsyncer_clean(rsyncer, dirs, undeletable)
       IN  /\ dirs' = r.dirs
           /\ log' = Append(log, "clean")
           /\ IF r.raised THEN uncaught("OSError")
              ELSE UNCHANGED <<pc, exit_status, stderr>>
    /\ UNCHANGED <<found, argv, args, rsync_exe, tar_exe, rsyncer, tarrer, clock, ticks,
                   tmpenv, undeletable, archives, calls>>

\* Tarrer(tar_exe, directory_to_tar, output_location, is_daily, do_full_backup)
ClientNewTarrer ==
    /\ pc = "tarrer_client"
    /\ ~tarrer.made
    /\ tarrer' = Tarrer_init(tar_exe, args.directory_to_tar, args.output_location,
                             args.is_daily, args.do_full_backup, clock)
    /\ UNCHANGED <<pc, found, argv, args, rsync_exe, tar_exe, rsyncer, clock, ticks, tmpenv,
                   dirs, undeletable, archives, calls, log, exit_status, stderr>>

NextClient ==
    \/ ClientNewRsyncer
    \/ ClientRun
    \/ ClientClean
    \/ ClientNewTarrer

SpecClient == InitClient /\ [][NextClient]_vars

-----------------------------------------------------------------------------
(* What the properties read off the state *)

\* the staging directory of the Rsyncer, as the filesystem knows it
StagingDir == Canon(rsyncer.tmp_directory)

\* the steps of a complete run, in order
FullRun == <<"mkdtemp", "tar_command", "rsync", "tar", "clean">>

\* s is an initial part of t
IsPrefix(s, t) == Len(s) <= Len(t) /\ SubSeq(t, 1, Len(s)) = s

\* the file name of the archive a Tarrer's command writes: the part of -cjf's
\* argument after its last separator
ArchiveName(t) ==
    LET output_file == t.command[Len(t.command) - 1]
        seps == {i \in 1..Len(output_file) : Char(output_file, i) = "/"}
        last == IF seps = {} THEN 0 ELSE CHOOSE i \in seps : \A j \in seps : j <= i
    IN  SubSeq(output_file, last + 1, Len(output_file))

\* the positions of a Tarrer's command that hold a modification-time filter
FilterTokens(t) == {i \in 1..Len(t.command) : startswith(t.command[i], "--newer-mtime=")}

\* a string of decimal digits
IsDigits(s) == \A i \in 1..Len(s) : \E d \in 0..9 : Char(s, i) = Digit(d)

\* the number a string of decimal digits writes
RECURSIVE ToNat(_)
ToNat(s) ==
    IF Len(s) = 0 THEN 0
    ELSE 10 * ToNat(SubSeq(s, 1, Len(s) - 1))
            + (CHOOSE d \in 0..9 : Char(s, Len(s)) = Digit(d))

\* the instant a "YYYYMMDDHHMMSS" string names: <<day ordinal, second of the day>>
StampInstant(s) ==
    << ymd2ord(ToNat(SubSeq(s, 1, 4)), ToNat(SubSeq(s, 5, 6)), ToNat(SubSeq(s, 7, 8))),
       ToNat(SubSeq(s, 9, 10)) * 3600 + ToNat(SubSeq(s, 11, 12)) * 60
           + ToNat(SubSeq(s, 13, 14)) >>

\* a "YYYY-MM-DD HH:MM:SS" string
IsIsoStamp(s) ==
    /\ Len(s) = 19
    /\ Char(s, 5) = "-" /\ Char(s, 8) = "-" /\ Char(s, 11) = " "
    /\ Char(s, 14) = ":" /\ Char(s, 17) = ":"
    /\ IsDigits(SubSeq(s, 1, 4) \o SubSeq(s, 6, 7) \o SubSeq(s, 9, 10)
                    \o SubSeq(s, 12, 13) \o SubSeq(s, 15, 16) \o SubSeq(s, 18, 19))

\* the instant a "YYYY-MM-DD HH:MM:SS" string names
IsoInstant(s) ==
    << ymd2ord(ToNat(SubSeq(s, 1, 4)), ToNat(SubSeq(s, 6, 7)), ToNat(SubSeq(s, 9, 10))),
       ToNat(SubSeq(s, 12, 13)) * 3600 + ToNat(SubSeq(s, 15, 16)) * 60
           + ToNat(SubSeq(s, 18, 19)) >>

\* the timestamp inside an archive file name: the 14 characters before ".tar.bz2"
NameStamp(name) == SubSeq(name, Len(name) - 21, Len(name) - 8)

\* the value of a filter token: what stands between the double quotes
FilterValue(token) == SubSeq(token, Len("--newer-mtime=\"") + 1, Len(token) - 1)

\* the instant the clock shows
ClockInstant == <<ymd2ord(clock.year, clock.month, clock.day), second_of_day(clock)>>

\* the last part of a directory name that is not empty, "" when there is none
FinalName(d) ==
    LET named == {i \in 1..Len(d) : Char(d, i) # "/"}
        stop  == CHOOSE i \in named : \A j \in named : j <= i
        seps  == {i \in 1..stop : Char(d, i) = "/"}
        start == IF seps = {} THEN 0 ELSE CHOOSE i \in seps : \A j \in seps : j <= i
    IN  IF named = {} THEN "" ELSE SubSeq(d, start + 1, stop)

-----------------------------------------------------------------------------
(* The properties *)

\* C1 (as claimed): once the Rsyncer has been constructed, no run ends with the
\* staging directory still present, whichever way the run ends.
C1_StagingGoneAtEveryExit ==
    (pc \in Terminal /\ rsyncer.made) => StagingDir \notin dirs

\* C2: when find_executable finds no rsync or no tar, the process does nothing but
\* exit with a non-zero status and one of the two messages: no staging directory is
\* made, no subprocess is run and no archive is written.
C2_MissingToolExitsBeforeSideEffects ==
    (found.rsync = None \/ found.tar = None) =>
        /\ pc \in {"find", "exited"}
        /\ ~rsyncer.made /\ ~tarrer.made
        /\ dirs = {} /\ calls = <<>> /\ archives = {} /\ log = <<>>
        /\ pc = "exited" =>
            /\ exit_status # 0
            /\ exit_status # NoStatus
            /\ stderr = IF found.rsync = None THEN "Can not find rsync."
                        ELSE "Can not find tar."

\* a run that found rsync but not tar has exited
C2_Witness == pc = "exited" /\ found.rsync # None /\ found.tar = None

\* C3: the archive name starts with "FULL_" when --full is given, whatever --daily
\* is, with "DAILY_" when only --daily is given, and with the base name when neither
\* is; the prefix is followed directly by the base name, so it is never doubled.
C3_PrefixPrecedence ==
    tarrer.made =>
        LET name == ArchiveName(tarrer)
            Form(prefix) ==
                /\ name = prefix \o "power_mezzanine_tester_logs_" \o NameStamp(name)
                               \o ".tar.bz2"
                /\ IsDigits(NameStamp(name))
        IN  /\ args.full => Form("FULL_")
            /\ (~args.full /\ args.daily) => Form("DAILY_")
            /\ (~args.full /\ ~args.daily) => Form("")

\* a Tarrer built with both flags given
C3_Witness == tarrer.made /\ args.full /\ args.daily /\ pc = "rsync_run"

\* C4: the archive command holds a modification-time filter exactly when --full is
\* not given; it then holds one, between the executable and "-cjf", and its value is
\* the instant in the archive file name, which is the clock reading of the
\* construction, less two days to the second.
C4_TimeFilter ==
    tarrer.made =>
        LET com == tarrer.command
        IN  /\ (FilterTokens(tarrer) # {}) <=> ~args.full
            /\ com[4] = tar_exe
            /\ StampInstant(NameStamp(ArchiveName(tarrer))) = ClockInstant
            /\ args.full => com[5] = "-cjf"
            /\ ~args.full =>
                /\ FilterTokens(tarrer) = {5}
                /\ com[6] = "-cjf"
                /\ com[5] = "--newer-mtime=\"" \o FilterValue(com[5]) \o "\""
                /\ IsIsoStamp(FilterValue(com[5]))
                /\ IsoInstant(FilterValue(com[5]))
                       = <<ClockInstant[1] - 2, ClockInstant[2]>>

\* a filtered Tarrer built on 1 March of a leap year, the clock having advanced
C4_Witness == tarrer.made /\ ~args.full /\ clock.year = 2016 /\ ticks > 0

\* C5 (as claimed): a run without flags ends with an archive command that has no
\* prefix in its file name and no time filter, the staging directory removed.
C5_NoFlagsRunIsUnfiltered ==
    (pc = "done" /\ ~args.daily /\ ~args.full) =>
        /\ startswith(ArchiveName(tarrer), "power_mezzanine_tester_logs_")
        /\ FilterTokens(tarrer) = {}
        /\ StagingDir \notin dirs

\* C5 (amended): a run without flags that reaches its end has made the staging
\* directory, built the sync command on it, built an archive command whose file
\* name has no prefix and which does hold the two-day time filter, and has called
\* clean after the archive step, which removed the staging directory unless
\* rmtree could not.
C5_NoFlagsRunIsFiltered ==
    (pc = "done" /\ ~args.daily /\ ~args.full) =>
        /\ log = FullRun
        /\ rsyncer.command[4] = rsyncer.tmp_directory
        /\ tarrer.directory_to_tar = rsyncer.tmp_directory
        /\ startswith(ArchiveName(tarrer), "power_mezzanine_tester_logs_")
        /\ endswith(ArchiveName(tarrer), ".tar.bz2")
        /\ FilterTokens(tarrer) = {5}
        /\ IsoInstant(FilterValue(tarrer.command[5]))
               = <<ClockInstant[1] - 2, ClockInstant[2]>>
        /\ (StagingDir \in dirs) <=> (StagingDir \in undeletable)

\* a run without flags has reached its end
C5_Witness == pc = "done" /\ ~args.daily /\ ~args.full /\ dirs = {}

\* C6: the exit statuses of the two subprocesses decide nothing.  Each command is
\* run once and never again, the archive step follows the sync step and clean
\* follows the archive step whatever the statuses, no run is ended on account of a
\* status, and a run that reaches its end has status 0, has written no message and
\* has performed the same steps.
C6_ExitStatusesIgnored ==
    /\ Len(calls) <= 2
    /\ Len(calls) >= 1 => calls[1].com = joinWith(" ", rsyncer.command)
    /\ Len(calls) = 2 => calls[2].com = joinWith(" ", tarrer.command)
    /\ (Len(calls) = 1 /\ pc # "crashed") => pc = "tar_run"
    /\ (Len(calls) = 2 /\ pc # "crashed") => pc \in {"clean", "done"}
    /\ (Len(calls) >= 1 /\ pc = "crashed") => stderr = "Traceback: KeyboardInterrupt"
    /\ pc = "done" =>
        /\ log = FullRun
        /\ Len(calls) = 2
        /\ exit_status = 0
        /\ stderr = ""
        /\ (StagingDir \in dirs) <=> (StagingDir \in undeletable)

\* a run has reached its end although both subprocesses exited with a non-zero status
C6_Witness == pc = "done" /\ calls[1].rc # 0 /\ calls[2].rc # 0

\* C7: a call of clean raises nothing, whatever the state of the staging directory;
\* it removes a directory that is there and can be removed, and changes nothing when
\* the directory is already gone or cannot be removed.
C7_CleanNeverRaises ==
    [][ (log' = Append(log, "clean")) =>
            /\ pc' = pc
            /\ exit_status' = exit_status
            /\ stderr' = stderr
            /\ undeletable' = undeletable
            /\ (StagingDir \in dirs /\ StagingDir \notin undeletable)
                   => dirs' = dirs \ {StagingDir}
            /\ (StagingDir \notin dirs \/ StagingDir \in undeletable)
                   => dirs' = dirs ]_vars

\* clean has been called twice in a row on a directory the first call removed
C7_Witness ==
    /\ pc = "rsyncer_client"
    /\ log = <<"mkdtemp", "clean", "clean">>
    /\ dirs = {}

C9_SyncCommand ==
    rsyncer.made =>
        /\ Len(rsyncer.command) = 4
        /\ rsyncer.command[1] = found.rsync
        /\ rsyncer.command[2] = "--archive"
        /\ rsyncer.command[3] = argv.log_location
        /\ rsyncer.command[4] = rsyncer.tmp_directory
        /\ dirs \subseteq {Canon(rsyncer.command[4])}
        /\ "clean" \notin {log[i] : i \in 1..Len(log)} => dirs = {Canon(rsyncer.command[4])}
        /\ tarrer.made => tarrer.directory_to_tar = rsyncer.command[4]

\* both objects built, the temporary directory being the current directory
C9_Witness == rsyncer.made /\ tarrer.made /\ tmpenv.dir = "." /\ pc = "rsync_run"

\* C10 (as claimed): every run that gets past the resolution of the executables
\* performs the five steps in order, each once.
C10_EveryRunPastResolutionDoesAllSteps ==
    /\ IsPrefix(log, FullRun)
    /\ (pc \in Terminal /\ rsync_exe # None /\ tar_exe # None) => log = FullRun

\* C10 (amended): the steps a run has performed are always an initial part of
\* mkdtemp, archive command, sync run, archive run, clean, so each happens at most
\* once and in that order; the sync subprocess has exited before the archive one
\* starts; the staging directory exists from its creation until clean is called;
\* and a run that reaches its end has performed all five.  A run that argparse or an
\* uncaught error ends performs only an initial part.
C10_StepsInOrder ==
    /\ IsPrefix(log, FullRun)
    /\ Len(calls) = Cardinality({i \in 1..Len(log) : log[i] \in {"rsync", "tar"}})
    /\ Len(calls) >= 1 => calls[1].com = joinWith(" ", rsyncer.command)
    /\ Len(calls) = 2 => calls[2].com = joinWith(" ", tarrer.command)
    /\ (Len(log) \in 1..4) => StagingDir \in dirs
    /\ pc = "done" => log = FullRun
    /\ pc = "exited" => log = <<>>
    /\ pc = "new_tarrer" => Len(log) = 1
    /\ pc = "rsync_run" => Len(log) = 2
    /\ pc = "tar_run" => Len(log) = 3
    /\ pc = "clean" => Len(log) = 4

\* a run has reached its end
C10_Witness == pc = "done" /\ log = FullRun /\ Len(calls) = 2

=============================================================================
